---- MODULE Spec2Model ----
(***************************************************************************)
(* A model of flexbuf (src/flexbuf/flexbuf.h): the shared memory           *)
(* descriptor (internal::BufferData), the views and buffers that reference *)
(* it (BufferView, Buffer, FlexBuffer) and the cursors over them           *)
(* (BufferReader, BufferWriter).                                           *)
(*                                                                         *)
(* size_t is modelled with Bits bits: every size_t expression of the code  *)
(* is computed modulo 2^Bits.  A descriptor is an entry of heap; a handle  *)
(* (a BufferView, Buffer or FlexBuffer object) is a record holding the     *)
(* index of its descriptor (the shared_ptr<BufferData> _data), its _offset *)
(* and its _size.  Memory that new char[n] returns is uninitialised: a     *)
(* cell holds Uninit until it is written, memcpy carries Uninit along, and *)
(* a read of such a cell yields any byte.  An access outside the current   *)
(* allocation is undefined behaviour: a read yields any byte, a write      *)
(* lands outside the descriptor's allocation; the process dying there is   *)
(* the behaviour that stutters from that state on.                         *)
(***************************************************************************)
EXTENDS Integers, Sequences, FiniteSets, TLC

\* ---------------------------------------------------------------- bounds

\* width of size_t in the model
Bits == 3
\* largest byte value of the model's alphabet
MaxByte == 1
\* operations per behaviour
MaxSteps == 4
\* largest initial_capacity a FlexBuffer is constructed with
MaxInitCap == 3
\* largest length of appended data, reserved regions and slices asked for
MaxLen == 2

\* operations per behaviour of SpecBounds, whose arguments range over size_t
MaxProbes == 2

M == 2 ^ Bits
SizeT == 0 .. (M - 1)
Byte == 0 .. MaxByte
\* the content of a cell of new char[n] that was never written
Uninit == MaxByte + 1
Min(a, b) == IF a < b THEN a ELSE b
Max(a, b) == IF a > b THEN a ELSE b
\* unsigned wrap-around of a size_t expression
Wrap(x) == (x + M * M) % M

\* static const size_t npos = -1
npos == M - 1

ResizeMode == {"KeepData", "IgnoreData"}

VARIABLES
  heap,   \* the BufferData objects, in order of creation
  hs,     \* the handles: name -> [d, off, size, ic, kind, born]
  pos,    \* the cursors: the reader's and the writer's _position, the writer's _buf
  last,   \* what the last operation was and what it returned or raised
  steps   \* operations done so far

vars == <<heap, hs, pos, last, steps>>

\* ------------------------------------------------------------ BufferData

\* BufferData(): no memory, capacity 0
BufferData_default == [cap |-> 0, mem |-> << >>, gen |-> 0, freed |-> 0]

\* BufferData(size_t capacity): new char[capacity], content uninitialised
BufferData_alloc(capacity) ==
  [cap |-> capacity, mem |-> [i \in 1 .. capacity |-> Uninit], gen |-> 0, freed |-> 0]

BufferData_resize_NoCopy(bd, mode, new_capacity) ==
  [cap |-> new_capacity,
   mem |-> [i \in 1 .. new_capacity |-> Uninit],
   gen |-> bd.gen + 1, freed |-> bd.freed]

\* BufferData::resize: a new allocation, the old content copied under KeepData
BufferData_resize(bd, mode, new_capacity) ==
  [cap |-> new_capacity,
   mem |-> [i \in 1 .. new_capacity |->
              IF mode = "KeepData" /\ i <= Min(bd.cap, new_capacity)
                THEN bd.mem[i] ELSE Uninit],
   gen |-> bd.gen + 1, freed |-> bd.freed]

\* ~BufferData(): _ptr gives up the memory; freed counts the times it did
BufferData_destroy(bd) == [cap |-> 0, mem |-> << >>, gen |-> bd.gen, freed |-> bd.freed + 1]

\* ---------------------------------------------------------------- handles

\* "rv" is the BufferView a BufferReader holds (_view)
HandleNames == {"fb", "s1", "s2", "cp", "rv"}
NoHandle == [d |-> 0, off |-> 0, size |-> 0, ic |-> 0, kind |-> "none", born |-> 0]
Live(h) == h.d # 0

\* BufferView(BufferDataPtr&, offset, size) / Buffer(BufferDataPtr&, offset, size)
MkHandle(kind, d, off, size, born) ==
  [d |-> d, off |-> off, size |-> size, ic |-> 0, kind |-> kind, born |-> born]

\* _data->capacity()
Cap(hp, v) == hp[v.d].cap

\* BufferView::check_bounds; TRUE when it returns, FALSE when it throws
check_bounds(hp, v, index, size) ==
  LET end == Wrap(index + size)
  IN ~(end > v.size \/ end > Wrap(Cap(hp, v) - v.off))

\* BufferView::raw_data() + index, as a position of the descriptor's memory
raw_data(v, index) == Wrap(v.off + index)

\* the cell at position p of descriptor d (Uninit outside the allocation)
Cell(hp, d, p) == IF p < hp[d].cap THEN hp[d].mem[p + 1] ELSE Uninit

\* the byte a read of position p yields: any byte (junk) where the cell was
\* never written or lies outside the allocation
Load(hp, d, p, junk) == IF Cell(hp, d, p) = Uninit THEN junk ELSE Cell(hp, d, p)

\* memcpy(dst, src, n) into descriptor d from position p on
Store(hp, d, p, bytes) ==
  [hp EXCEPT ![d].mem = [i \in 1 .. hp[d].cap |->
     IF i - 1 >= p /\ i - 1 < p + Len(bytes) THEN bytes[i - p] ELSE @[i]]]

\* the bytes a handle reads at index .. index + n - 1
LoadSeq(hp, v, index, n, junk) ==
  [k \in 1 .. n |-> Load(hp, v.d, raw_data(v, index) + k - 1, junk)]

\* the handle that subview / subspan build: BufferView{_data, index, size}
Slice(hp, v, kind, index, size) == MkHandle(kind, v.d, index, size, hp[v.d].gen)

\* the size argument of subview / subspan / copy / flex_copy after "to the end"
ToEnd(v, index, size) == IF size = npos THEN Wrap(v.size - index) ELSE size

\* ------------------------------------------------------- text conversions

\* the hexadecimal digits int has: sizeof(int) = 4
IntDigits == 8

\* static_cast<int>(c) of the char with bit pattern c (0 .. 255): negative
\* from 128 on where char is signed
AsInt(c, signed) == IF signed /\ c >= 128 THEN c - 256 ELSE c

\* the character of a hexadecimal digit under std::hex: '0'..'9', 'a'..'f'
HexChar(d) == IF d < 10 THEN 48 + d ELSE 87 + d

\* operator<<(int) under std::hex: the digits of the value as unsigned int,
\* without leading zeros
HexOfInt(x) ==
  IF x < 0
    THEN [i \in 1 .. IntDigits |->
            IF i <= IntDigits - 2 THEN HexChar(15)
            ELSE IF i = IntDigits - 1 THEN HexChar((256 + x) \div 16)
            ELSE HexChar((256 + x) % 16)]
    ELSE IF x < 16 THEN << HexChar(x) >>
    ELSE << HexChar(x \div 16), HexChar(x % 16) >>

\* std::setw(2) with std::setfill('0'): padded on the left to two characters
SetW2(digits) == IF Len(digits) < 2 THEN << 48 >> \o digits ELSE digits

RECURSIVE HexOfBytes(_, _)
\* the loop of hex(): every byte through static_cast<int>, std::hex, setw(2)
HexOfBytes(bytes, signed) ==
  IF bytes = << >> THEN << >>
  ELSE SetW2(HexOfInt(AsInt(Head(bytes), signed))) \o HexOfBytes(Tail(bytes), signed)

\* BufferView::hex after its check_bounds: "0x", then the loop
BufferView_hex(bytes, signed) == << 48, 120 >> \o HexOfBytes(bytes, signed)

RECURSIVE StrLen(_)
\* the number of bytes before the first zero byte, Len(bytes) + 1 if none:
\* a const char* is read as a zero-terminated string
StrLen(bytes) ==
  IF bytes = << >> THEN 1
  ELSE IF Head(bytes) = 0 THEN 0
  ELSE IF StrLen(Tail(bytes)) > Len(Tail(bytes)) THEN Len(bytes) + 1
  ELSE 1 + StrLen(Tail(bytes))

\* BufferView::str after its check_bounds: std::string{raw_data(), 0, _size}
\* makes a string of the zero-terminated string at raw_data() and takes
\* its first _size characters at most
BufferView_str(bytes) == SubSeq(bytes, 1, Min(StrLen(bytes), Len(bytes)))

\* ------------------------------------------------------------- FlexBuffer

RECURSIVE Doubling(_, _)
\* the loop of capacity_for: capacity <<= 1 while size > capacity
Doubling(size, capacity) ==
  IF size > capacity /\ capacity # 0
    THEN Doubling(size, Wrap(capacity * 2))
    ELSE capacity

RECURSIVE Doubling_OffByOne(_, _)
Doubling_OffByOne(size, capacity) ==
  IF size >= capacity /\ capacity # 0
    THEN Doubling_OffByOne(size, Wrap(capacity * 2))
    ELSE capacity

capacity_for_OffByOne(size, min_capacity) ==
  LET capacity == Doubling_OffByOne(size, Max(1, min_capacity))
  IN IF capacity = 0 THEN size ELSE capacity

capacity_for_NoClamp(size, min_capacity) == Doubling(size, Max(1, min_capacity))

\* FlexBuffer::capacity_for
capacity_for(size, min_capacity) ==
  LET capacity == Doubling(size, Max(1, min_capacity))
  IN IF capacity = 0 THEN size ELSE capacity

\* a resize that gives the FlexBuffer a descriptor of its own, as operator= does
FlexBuffer_resize_Reseat(hp, f, size, mode) ==
  LET new_capacity == IF size > f.size
                        THEN capacity_for(size, hp[f.d].cap)
                        ELSE capacity_for(size, f.ic)
  IN [heap |-> IF new_capacity # hp[f.d].cap
                 THEN Append(hp, BufferData_resize(hp[f.d], mode, new_capacity))
                 ELSE hp,
      fb |-> [f EXCEPT !.size = size,
                       !.d = IF new_capacity # hp[f.d].cap THEN Len(hp) + 1 ELSE @]]

\* a resize that shrinks below _initial_capacity
FlexBuffer_resize_NoFloor(hp, f, size, mode) ==
  LET new_capacity == IF size > f.size
                        THEN capacity_for(size, hp[f.d].cap)
                        ELSE capacity_for(size, 0)
  IN [heap |-> IF new_capacity # hp[f.d].cap
                 THEN [hp EXCEPT ![f.d] = BufferData_resize(@, mode, new_capacity)]
                 ELSE hp,
      fb |-> [f EXCEPT !.size = size]]

\* a resize that reallocates every time
FlexBuffer_resize_Always(hp, f, size, mode) ==
  LET new_capacity == IF size > f.size
                        THEN capacity_for(size, hp[f.d].cap)
                        ELSE capacity_for(size, f.ic)
  IN [heap |-> [hp EXCEPT ![f.d] = BufferData_resize(@, mode, new_capacity)],
      fb |-> [f EXCEPT !.size = size]]

\* FlexBuffer::resize, on handle f of heap hp: the new heap and handle
FlexBuffer_resize(hp, f, size, mode) ==
  LET new_capacity == IF size > f.size
                        THEN capacity_for(size, hp[f.d].cap)
                        ELSE capacity_for(size, f.ic)
  IN [heap |-> IF new_capacity # hp[f.d].cap
                 THEN [hp EXCEPT ![f.d] = BufferData_resize(@, mode, new_capacity)]
                 ELSE hp,
      fb |-> [f EXCEPT !.size = size]]

\* FlexBuffer::reserve: the new heap and handle, and the Buffer returned
FlexBuffer_reserve(hp, f, size) ==
  LET r == FlexBuffer_resize(hp, f, Wrap(f.size + size), "KeepData")
  IN [heap |-> r.heap, fb |-> r.fb,
      ret |-> MkHandle("buffer", f.d, f.size, size, r.heap[f.d].gen)]

\* FlexBuffer::append: reserve, then memcpy into dest.data()
FlexBuffer_append(hp, f, bytes) ==
  LET r == FlexBuffer_reserve(hp, f, Len(bytes))
  IN [heap |-> Store(r.heap, f.d, raw_data(r.ret, 0), bytes), fb |-> r.fb]

\* the cells memcpy reads from handle v at index .. index + n - 1
Cells(hp, v, index, n) ==
  [k \in 1 .. n |-> Cell(hp, v.d, raw_data(v, index) + k - 1)]

\* the heap with descriptor bd made for the handle "cp": the descriptor cp
\* held before had cp as its only holder and is destroyed with it
WithCopy(hp, bd) == IF Len(hp) = 1 THEN Append(hp, bd) ELSE [hp EXCEPT ![2] = bd]

\* Buffer::copy after its check_bounds: allocate(size), then memcpy
Buffer_copy(hp, v, index, size) ==
  [heap |-> WithCopy(hp, [BufferData_alloc(size) EXCEPT !.mem = Cells(hp, v, index, size)]),
   ret |-> MkHandle("buffer", 2, 0, size, 0)]

\* fb << buffer: TRUE when the pointer buffer.data() gave is, at the memcpy of
\* append, into memory that was released: buffer shares the FlexBuffer's
\* descriptor and reserve made BufferData::resize replace its allocation
FlexBuffer_append_dangling(hp, f, v) ==
  v.d = f.d /\ FlexBuffer_reserve(hp, f, v.size).heap[f.d].gen # hp[f.d].gen

\* FlexBuffer::operator<<(const BufferView& buffer): buffer.data() is taken
\* first, then append reserves and memcpys from that pointer. When the view
\* shares the FlexBuffer's descriptor and reserve reallocates it, the pointer
\* is into the allocation just released and the bytes read are any (junk).
FlexBuffer_append_view(hp, f, v, junk) ==
  LET r == FlexBuffer_reserve(hp, f, v.size)
      src == IF FlexBuffer_append_dangling(hp, f, v) THEN junk ELSE Cells(hp, v, 0, v.size)
  IN [heap |-> Store(r.heap, f.d, raw_data(r.ret, 0), src), fb |-> r.fb]

\* Buffer(const Buffer& rhs): a descriptor of rhs.size() bytes, then memcpy
Buffer_copy_ctor(hp, rhs) ==
  [heap |-> WithCopy(hp, [BufferData_alloc(rhs.size) EXCEPT !.mem = Cells(hp, rhs, 0, rhs.size)]),
   ret |-> MkHandle("buffer", 2, 0, rhs.size, 0)]

\* t = rhs for Buffers: _data and _size are replaced, _offset is kept, and
\* memcpy writes at raw_data() of the new descriptor
Buffer_assign(hp, t, rhs) ==
  LET made == WithCopy(hp, BufferData_alloc(rhs.size))
  IN [heap |-> [made EXCEPT ![2].mem = [i \in 1 .. rhs.size |->
                  IF i - 1 >= t.off /\ i - 1 < t.off + rhs.size
                    THEN Cell(hp, rhs.d, raw_data(rhs, 0) + i - 1 - t.off)
                    ELSE @[i]]],
      ret |-> MkHandle("buffer", 2, t.off, rhs.size, 0)]

\* the bytes the memcpy of t = rhs writes past the end of the new descriptor:
\* it holds rhs.size() bytes and the memcpy starts at t's _offset, so the
\* last min(_offset, rhs.size()) bytes of rhs lie outside the allocation
Buffer_assign_overrun(hp, t, rhs) ==
  LET n == Min(t.off, rhs.size)
  IN [k \in 1 .. n |-> Cell(hp, rhs.d, raw_data(rhs, rhs.size - n + k - 1))]

\* Buffer::copy_of(buffer_view): allocate(size()), then memcpy from data()
Buffer_copy_of(hp, v) ==
  [heap |-> WithCopy(hp, [BufferData_alloc(v.size) EXCEPT !.mem = Cells(hp, v, 0, v.size)]),
   ret |-> MkHandle("buffer", 2, 0, v.size, 0)]

\* a default-constructed Buffer: no descriptor, offset 0, size 0
Buffer_default == [d |-> 0, off |-> 0, size |-> 0, ic |-> 0, kind |-> "buffer", born |-> 0]

\* FlexBuffer(const FlexBuffer& rhs): the private constructor with
\* rhs.capacity() bytes, which sets _size to 0, then memcpy of rhs.size() bytes
FlexBuffer_copy_ctor(hp, rhs) ==
  LET made == WithCopy(hp, BufferData_alloc(Cap(hp, rhs)))
  IN [heap |-> [made EXCEPT ![2].mem = [i \in 1 .. Cap(hp, rhs) |->
                  IF i <= rhs.size THEN Cell(hp, rhs.d, raw_data(rhs, 0) + i - 1) ELSE @[i]]],
      ret |-> [d |-> 2, off |-> 0, size |-> 0, ic |-> rhs.ic, kind |-> "buffer", born |-> 0]]

\* c = rhs for FlexBuffers: a descriptor of rhs.capacity() bytes, _size and
\* _initial_capacity taken from rhs, then memcpy of rhs.size() bytes
FlexBuffer_assign(hp, c, rhs) ==
  LET made == WithCopy(hp, BufferData_alloc(Cap(hp, rhs)))
  IN [heap |-> [made EXCEPT ![2].mem = [i \in 1 .. Cap(hp, rhs) |->
                  IF i - 1 >= c.off /\ i - 1 < c.off + rhs.size
                    THEN Cell(hp, rhs.d, raw_data(rhs, 0) + i - 1 - c.off)
                    ELSE @[i]]],
      ret |-> [d |-> 2, off |-> c.off, size |-> rhs.size, ic |-> rhs.ic,
               kind |-> "buffer", born |-> 0]]

\* FlexBuffer::flex_copy after its check_bounds: a FlexBuffer of capacity
\* capacity_for(size, _initial_capacity), then append
FlexBuffer_flex_copy(hp, f, index, size) ==
  LET made == WithCopy(hp, BufferData_alloc(capacity_for(size, f.ic)))
      result == [d |-> 2, off |-> 0, size |-> 0, ic |-> f.ic, kind |-> "buffer", born |-> 0]
      r == FlexBuffer_reserve(made, result, size)
  IN [heap |-> [r.heap EXCEPT ![2].mem = [i \in 1 .. r.heap[2].cap |->
                  IF i <= size /\ i - 1 >= r.ret.off
                    THEN Cell(hp, f.d, raw_data(f, index) + i - 1 - r.ret.off)
                    ELSE @[i]]],
      ret |-> r.fb]

\* ------------------------------------------------- the operations' record

\* last: the operation, the handle it went through, whether it threw, its
\* arguments, the length it touched from raw_data() + index on, the bytes it
\* read or wrote, and the resize mode
Rec(op, h, raised, index, size, len, val, mode) ==
  [op |-> op, h |-> h, raised |-> raised, index |-> index, size |-> size,
   len |-> len, val |-> val, mode |-> mode]

\* an operation that returned
Done(op, h, index, size, len, val) == Rec(op, h, FALSE, index, size, len, val, "KeepData")
\* an operation that threw std::range_error
Raised(op, h, index, size) == Rec(op, h, TRUE, index, size, 0, << >>, "KeepData")

Step == steps < MaxSteps /\ steps' = steps + 1

\* the data a caller appends or writes
Data == {[i \in 1 .. n |-> (b + i) % (MaxByte + 1)] : n \in 1 .. MaxLen, b \in Byte}
\* the sizes a caller resizes to: small ones, and one past half the range
ResizeSizes == {0, 1, 3, M \div 2 + 1}
\* the indexes and sizes a caller asks a slice or a byte for in SpecSlices
\* (sizes near npos are SpecBounds')
Indexes == 0 .. MaxLen
Sizes == 1 .. MaxLen

\* ------------------------------------------------------------------- Spec
\* One FlexBuffer "fb", a slice "s1" taken from it (subview, subspan or
\* reserve) and a slice "s2" taken from s1.

\* FlexBuffer(size_t initial_capacity): size 0, initial_capacity bytes allocated
\* before a BufferReader or BufferWriter is constructed
NoCursor == [reader |-> 0, writer |-> 0, buf |-> "none"]

FlexBuffer_new(initial_capacity) ==
  [d |-> 1, off |-> 0, size |-> 0, ic |-> initial_capacity, kind |-> "buffer", born |-> 0]

Init ==
  \E c0 \in 0 .. MaxInitCap :
    /\ heap = << BufferData_alloc(c0) >>
    /\ hs = [n \in HandleNames |-> IF n = "fb" THEN FlexBuffer_new(c0) ELSE NoHandle]
    /\ pos = NoCursor
    /\ last = Done("new", "fb", 0, 0, 0, << >>)
    /\ steps = 0

\* fb.resize(n, mode)
Resize(n, mode) ==
  LET r == FlexBuffer_resize(heap, hs["fb"], n, mode)
  IN /\ Step
     /\ heap' = r.heap
     /\ hs' = [hs EXCEPT !["fb"] = r.fb]
     /\ last' = Rec("resize", "fb", FALSE, 0, n, 0, << >>, mode)
     /\ UNCHANGED pos

\* cp.resize(n, mode), cp a FlexBuffer
ResizeCopy(n, mode) ==
  LET r == FlexBuffer_resize(heap, hs["cp"], n, mode)
  IN /\ Step
     /\ Live(hs["cp"])
     /\ heap' = r.heap
     /\ hs' = [hs EXCEPT !["cp"] = r.fb]
     /\ last' = Rec("resize", "cp", FALSE, 0, n, 0, << >>, mode)
     /\ UNCHANGED pos

\* s1 = fb.reserve(n)
Reserve(n) ==
  LET r == FlexBuffer_reserve(heap, hs["fb"], n)
  IN /\ Step
     /\ heap' = r.heap
     /\ hs' = [hs EXCEPT !["fb"] = r.fb, !["s1"] = r.ret, !["s2"] = NoHandle]
     /\ last' = Done("reserve", "fb", hs["fb"].size, n, 0, << >>)
     /\ UNCHANGED pos

\* fb << bytes
AppendBytes(bytes) ==
  LET r == FlexBuffer_append(heap, hs["fb"], bytes)
  IN /\ Step
     /\ heap' = r.heap
     /\ hs' = [hs EXCEPT !["fb"] = r.fb]
     /\ last' = Done("append", "fb", hs["fb"].size, Len(bytes), Len(bytes), bytes)
     /\ UNCHANGED pos

\* fb << src, src a view or buffer
AppendView(src, junk) ==
  LET v == hs[src]
      r == FlexBuffer_append_view(heap, hs["fb"], v, junk)
  IN /\ Step
     /\ Live(v)
     /\ Len(junk) = v.size
     /\ heap' = r.heap
     /\ hs' = [hs EXCEPT !["fb"] = r.fb]
     /\ last' = Done("append_view", src, hs["fb"].size, v.size, v.size, Cells(heap, v, 0, v.size))
     /\ UNCHANGED pos

\* a descriptor is destroyed with every handle that gives it up
Release_Always(hp, handles, d) == [hp EXCEPT ![d] = BufferData_destroy(@)]

\* a handle of descriptor d was destroyed and handles are left: the
\* shared_ptr destroys the descriptor when none of them holds it
Release(hp, handles, d) ==
  IF \E h \in HandleNames : handles[h].d = d
    THEN hp
    ELSE [hp EXCEPT ![d] = BufferData_destroy(@)]

\* h goes out of scope (or the pointer that owns it is reset)
Destroy(h) ==
  LET left == [hs EXCEPT ![h] = NoHandle]
  IN /\ Step
     /\ Live(hs[h])
     /\ hs' = left
     /\ heap' = Release(heap, left, hs[h].d)
     /\ last' = Done("destroy", h, 0, 0, 0, << >>)
     /\ UNCHANGED pos

\* the slot a slice of src is kept in
SliceSlot(src) == IF src = "fb" THEN "s1" ELSE "s2"

\* dst = src.subview(index, size) (kind "view") or src.subspan(index, size)
\* (kind "buffer", of a Buffer only)
TakeSlice(op, kind, src, index, size) ==
  LET v == hs[src]
      n == ToEnd(v, index, size)
      dst == SliceSlot(src)
  IN /\ Step
     /\ Live(v)
     /\ IF check_bounds(heap, v, index, n)
          THEN /\ hs' = [t \in HandleNames |->
                           IF t = dst THEN Slice(heap, v, kind, index, n)
                           ELSE IF dst = "s1" /\ t = "s2" THEN NoHandle
                           ELSE hs[t]]
               /\ last' = Done(op, src, index, size, n, << >>)
          ELSE /\ hs' = hs
               /\ last' = Raised(op, src, index, size)
     /\ UNCHANGED <<heap, pos>>

\* BufferView::subview
Subview(src, index, size) == TakeSlice("subview", "view", src, index, size)

\* Buffer::subspan
Subspan(src, index, size) ==
  /\ hs[src].kind = "buffer"
  /\ TakeSlice("subspan", "buffer", src, index, size)

\* h[index], read
At(h, index, junk) ==
  LET v == hs[h]
  IN /\ Step
     /\ Live(v)
     /\ last' = IF check_bounds(heap, v, index, 1)
                  THEN Done("at", h, index, 1, 1, LoadSeq(heap, v, index, 1, junk))
                  ELSE Raised("at", h, index, 1)
     /\ UNCHANGED <<heap, hs, pos>>

\* h.data(): check_bounds(0, 0), then raw_data()
DataPtr(h) ==
  LET v == hs[h]
  IN /\ Step
     /\ Live(v)
     /\ last' = IF check_bounds(heap, v, 0, 0)
                  THEN Done("data", h, 0, 0, 0, << >>)
                  ELSE Raised("data", h, 0, 0)
     /\ UNCHANGED <<heap, hs, pos>>

\* the bytes of handle v, all of them written cells of its allocation
Written(v) ==
  \A k \in 0 .. (v.size - 1) :
    /\ raw_data(v, k) < Cap(heap, v)
    /\ Cell(heap, v.d, raw_data(v, k)) # Uninit

\* h.hex(), char signed or not as the platform has it
Hex(h, signed) ==
  LET v == hs[h]
      bytes == Cells(heap, v, 0, v.size)
  IN /\ Step
     /\ Live(v) /\ Written(v)
     /\ last' = IF check_bounds(heap, v, 0, v.size)
                  THEN Rec("hex", h, FALSE, 0, v.size, v.size, BufferView_hex(bytes, signed),
                           IF signed THEN "signed char" ELSE "unsigned char")
                  ELSE Raised("hex", h, 0, v.size)
     /\ UNCHANGED <<heap, hs, pos>>

\* h.str(); len is the number of bytes read from raw_data() on: through the
\* zero byte that ends the string, over bytes past the view when it has none
Str(h, over) ==
  LET v == hs[h]
      bytes == Cells(heap, v, 0, v.size)
  IN /\ Step
     /\ Live(v) /\ Written(v)
     /\ last' = IF check_bounds(heap, v, 0, v.size)
                  THEN Done("str", h, 0, v.size,
                            IF StrLen(bytes) > v.size THEN v.size + over ELSE StrLen(bytes) + 1,
                            BufferView_str(bytes))
                  ELSE Raised("str", h, 0, v.size)
     /\ UNCHANGED <<heap, hs, pos>>

\* h[index] = b (Buffer::operator[]), or h.write<T>(src, index) with bytes of sizeof(T)
Put(h, index, bytes) ==
  LET v == hs[h]
  IN /\ Step
     /\ Live(v) /\ v.kind = "buffer"
     /\ IF check_bounds(heap, v, index, Len(bytes))
          THEN /\ heap' = Store(heap, v.d, raw_data(v, index), bytes)
               /\ last' = Done("put", h, index, Len(bytes), Len(bytes), bytes)
          ELSE /\ heap' = heap
               /\ last' = Raised("put", h, index, Len(bytes))
     /\ UNCHANGED <<hs, pos>>

\* h.clear(): memset(raw_data(), 0, _size)
Clear(h) ==
  LET v == hs[h]
  IN /\ Step
     /\ Live(v) /\ v.kind = "buffer"
     /\ IF check_bounds(heap, v, 0, v.size)
          THEN /\ heap' = Store(heap, v.d, raw_data(v, 0), [k \in 1 .. v.size |-> 0])
               /\ last' = Done("clear", h, 0, v.size, v.size, << >>)
          ELSE /\ heap' = heap
               /\ last' = Raised("clear", h, 0, v.size)
     /\ UNCHANGED <<hs, pos>>

\* h.read<T>(index) with sizeof(T) = n
ReadT(h, index, n, junk) ==
  LET v == hs[h]
  IN /\ Step
     /\ Live(v)
     /\ last' = IF check_bounds(heap, v, index, n)
                  THEN Done("read", h, index, n, n, LoadSeq(heap, v, index, n, junk))
                  ELSE Raised("read", h, index, n)
     /\ UNCHANGED <<heap, hs, pos>>

\* cp = h.copy(index, size)
Copy(h, index, size) ==
  LET v == hs[h]
      n == ToEnd(v, index, size)
      r == Buffer_copy(heap, v, index, n)
  IN /\ Step
     /\ Live(v) /\ v.kind = "buffer"
     /\ IF check_bounds(heap, v, index, n)
          THEN /\ heap' = r.heap
               /\ hs' = [hs EXCEPT !["cp"] = r.ret]
               /\ last' = Done("copy", h, index, size, n, << >>)
          ELSE /\ UNCHANGED <<heap, hs>>
               /\ last' = Raised("copy", h, index, size)
     /\ UNCHANGED pos

\* cp = fb.flex_copy(index, size)
FlexCopy(index, size) ==
  LET v == hs["fb"]
      n == ToEnd(v, index, size)
      r == FlexBuffer_flex_copy(heap, v, index, n)
  IN /\ Step
     /\ IF check_bounds(heap, v, index, n)
          THEN /\ heap' = r.heap
               /\ hs' = [hs EXCEPT !["cp"] = r.ret]
               /\ last' = Done("flex_copy", "fb", index, size, n, << >>)
          ELSE /\ UNCHANGED <<heap, hs>>
               /\ last' = Raised("flex_copy", "fb", index, size)
     /\ UNCHANGED pos

\* what a copy leaves: the heap and the handle "cp", or nothing on a throw
Copied(op, h, r) ==
  /\ Step
  /\ heap' = r.heap
  /\ hs' = [hs EXCEPT !["cp"] = r.ret]
  /\ last' = Done(op, h, 0, hs[h].size, hs[h].size, << >>)
  /\ UNCHANGED pos

\* Buffer cp{h}
CopyCtor(h) ==
  /\ Live(hs[h]) /\ hs[h].kind = "buffer"
  /\ Copied("copy_ctor", h, Buffer_copy_ctor(heap, hs[h]))

\* Buffer cp; cp = h
Assign(h) ==
  /\ Live(hs[h]) /\ hs[h].kind = "buffer"
  /\ Copied("assign", h, Buffer_assign(heap, Buffer_default, hs[h]))

\* Buffer t = <the sub-buffer held as t>; t = rhs. The Buffer is held under
\* the name t while it shares the FlexBuffer's descriptor and under "cp" once
\* the assignment gave it a descriptor of its own. Bytes written past the new
\* allocation land in memory the allocator placed there: memory the program
\* does not look at, or (hit) the start of the FlexBuffer's allocation.
AssignInto(t, rhs, hit) ==
  LET r == Buffer_assign(heap, hs[t], hs[rhs])
      over == Buffer_assign_overrun(heap, hs[t], hs[rhs])
  IN /\ Step
     /\ Live(hs[t]) /\ hs[t].kind = "buffer"
     /\ Live(hs[rhs]) /\ hs[rhs].kind = "buffer"
     /\ hit => (Len(over) > 0 /\ r.heap[1].cap > 0)
     /\ heap' = IF hit THEN Store(r.heap, 1, 0, << over[1] >>) ELSE r.heap
     /\ hs' = [hs EXCEPT ![t] = NoHandle, !["cp"] = r.ret]
     /\ last' = Done("assign_into", rhs, raw_data(r.ret, 0), hs[rhs].size, Len(over),
                     Cells(heap, hs[rhs], 0, hs[rhs].size))
     /\ UNCHANGED pos

\* cp = Buffer::copy_of(h)
CopyOf(h) ==
  /\ Live(hs[h])
  /\ Copied("copy_of", h, Buffer_copy_of(heap, hs[h]))

\* FlexBuffer cp{fb}
FlexCopyCtor ==
  Copied("flex_copy_ctor", "fb", FlexBuffer_copy_ctor(heap, hs["fb"]))

\* FlexBuffer cp(c0); cp = fb
FlexAssign(c0) ==
  Copied("flex_assign", "fb", FlexBuffer_assign(heap, FlexBuffer_new(c0), hs["fb"]))

\* BufferReader::remaining and BufferWriter::remaining, at position p of a
\* view or buffer v
Cursor_remaining(v, p) == IF p < v.size THEN v.size - p ELSE 0

\* BufferReader reader{h}: _view is a copy of the view, _position 0
NewReader(h) ==
  /\ Step
  /\ Live(hs[h])
  /\ hs' = [hs EXCEPT !["rv"] = [hs[h] EXCEPT !.kind = "view"], !["s2"] = NoHandle]
  /\ pos' = [pos EXCEPT !.reader = 0]
  /\ last' = Done("reader", h, 0, 0, 0, << >>)
  /\ UNCHANGED heap

\* BufferWriter writer{h}: _buf refers to the Buffer, _position 0
NewWriter(h) ==
  /\ Step
  /\ Live(hs[h]) /\ hs[h].kind = "buffer"
  /\ pos' = [pos EXCEPT !.writer = 0, !.buf = h]
  /\ last' = Done("writer", h, 0, 0, 0, << >>)
  /\ UNCHANGED <<heap, hs>>

\* reader.position(p)
ReaderSeek(p) ==
  /\ Step
  /\ Live(hs["rv"])
  /\ pos' = [pos EXCEPT !.reader = p]
  /\ last' = Done("seek", "rv", p, 0, 0, << >>)
  /\ UNCHANGED <<heap, hs>>

\* writer.position(p)
WriterSeek(p) ==
  /\ Step
  /\ pos.buf # "none"
  /\ pos' = [pos EXCEPT !.writer = p]
  /\ last' = Done("seek", pos.buf, p, 0, 0, << >>)
  /\ UNCHANGED <<heap, hs>>

\* s2 = reader.peek(size) (advance FALSE) or reader.next(size) (advance TRUE):
\* _view.subview(_position, size), then _position += size
ReaderTake(op, size, advance) ==
  LET v == hs["rv"]
      n == ToEnd(v, pos.reader, size)
  IN /\ Step
     /\ Live(v)
     /\ IF check_bounds(heap, v, pos.reader, n)
          THEN /\ hs' = [hs EXCEPT !["s2"] = Slice(heap, v, "view", pos.reader, n)]
               /\ pos' = [pos EXCEPT !.reader = IF advance THEN Wrap(@ + size) ELSE @]
               /\ last' = Done(op, "rv", pos.reader, size, n, << >>)
          ELSE /\ UNCHANGED <<hs, pos>>
               /\ last' = Raised(op, "rv", pos.reader, size)
     /\ UNCHANGED heap

ReaderPeek(size) == ReaderTake("peek", size, FALSE)
ReaderNext(size) == ReaderTake("next", size, TRUE)

\* writer << bytes: std::runtime_error when _position + size > _buf.size(),
\* else memcpy to _buf.data() + _position and _position += size
WriterWrite(bytes) ==
  LET b == hs[pos.buf]
      n == Len(bytes)
  IN /\ Step
     /\ pos.buf # "none"
     /\ IF Wrap(pos.writer + n) > b.size \/ ~check_bounds(heap, b, 0, 0)
          THEN /\ UNCHANGED <<heap, pos>>
               /\ last' = Raised("write", pos.buf, pos.writer, n)
          ELSE /\ heap' = Store(heap, b.d, raw_data(b, pos.writer), bytes)
               /\ pos' = [pos EXCEPT !.writer = Wrap(@ + n)]
               /\ last' = Done("write", pos.buf, pos.writer, n, n, bytes)
     /\ UNCHANGED hs

\* Spec: the FlexBuffer alone, resized, reserved from and appended to.
Next ==
  \/ \E n \in ResizeSizes, mode \in ResizeMode : Resize(n, mode)
  \/ \E n \in 1 .. MaxLen : Reserve(n)
  \/ \E bytes \in Data : AppendBytes(bytes)

Spec == Init /\ [][Next]_vars

\* SpecSlices: the FlexBuffer resized while slices of it are outstanding.
NextSlices ==
  \/ \E n \in {0, 3}, mode \in ResizeMode : Resize(n, mode)
  \/ \E n \in 1 .. MaxLen : Reserve(n)
  \/ \E src \in {"fb", "s1"}, index \in Indexes, size \in Sizes : Subview(src, index, size)
  \/ \E src \in {"fb", "s1"}, index \in Indexes, size \in Sizes : Subspan(src, index, size)
  \/ \E h \in {"fb", "s1", "s2"}, index \in 0 .. 1, junk \in Byte : At(h, index, junk)
  \/ \E h \in {"fb", "s1", "s2"}, index \in 0 .. 1, b \in Byte : Put(h, index, << b >>)

SpecSlices == Init /\ [][NextSlices]_vars

\* the sizes of the fundamental types read and written in SpecBounds
TypeSizes == {2, 4}

\* the indexes and sizes tried in SpecBounds: both ends of size_t
Edge == (0 .. 4) \cup ((M - 3) .. (M - 1))

\* SpecBounds takes MaxProbes steps
Probing == steps < MaxProbes

\* SpecBounds: the bounds-checked operations, their index and size anywhere
\* in size_t, on a FlexBuffer and on a slice of it.
NextBounds ==
  \/ Probing /\ \E n \in {1, 3} : Resize(n, "KeepData")
  \/ Probing /\ \E h \in {"fb", "s1"}, index \in Edge, junk \in Byte : At(h, index, junk)
  \/ Probing /\ \E h \in {"fb", "s1"}, index \in Edge, n \in TypeSizes, junk \in Byte :
       ReadT(h, index, n, junk)
  \/ Probing /\ \E h \in {"fb", "s1"}, index \in Edge, n \in TypeSizes :
       Put(h, index, [k \in 1 .. n |-> 1])
  \/ Probing /\ \E index \in Edge, size \in Edge : Subview("fb", index, size)
  \/ Probing /\ \E index \in Edge, size \in Edge : Subspan("fb", index, size)
  \/ Probing /\ \E index \in Edge, size \in Edge : Copy("fb", index, size)
  \/ Probing /\ \E index \in Edge, size \in Edge : FlexCopy(index, size)
  \/ Probing /\ \E n \in Edge : Reserve(n)

SpecBounds == Init /\ [][NextBounds]_vars

\* SpecCopy: the FlexBuffer, a sub-buffer reserved from it, and a copy "cp"
\* made of either; bytes are put through all three and the FlexBuffer resized.
NextCopy ==
  \/ \E n \in {0, 3} : Resize(n, "KeepData")
  \/ Reserve(1)
  \/ \E h \in {"fb", "s1", "cp"}, index \in 0 .. 1, b \in Byte : Put(h, index, << b >>)
  \/ \E h \in {"fb", "s1"} : CopyCtor(h)
  \/ \E h \in {"fb", "s1"} : Assign(h)
  \/ \E h \in {"fb", "s1"} : CopyOf(h)
  \/ \E h \in {"fb", "s1"} : Copy(h, 0, npos)
  \/ \E h \in {"fb", "s1"}, index \in 0 .. 1 : Copy(h, index, 1)
  \/ \E h \in {"fb", "s1", "cp"} : DataPtr(h)
  \/ FlexCopyCtor
  \/ \E c0 \in {0, MaxInitCap} : FlexAssign(c0)

SpecCopy == Init /\ [][NextCopy]_vars

\* SpecAssign: Buffers that are assigned the FlexBuffer's content: a
\* default-constructed one, and a sub-buffer taken from the FlexBuffer by
\* subspan or by reserve.
NextAssign ==
  \/ \E bytes \in Data : AppendBytes(bytes)
  \/ \E index \in 0 .. 1, size \in Sizes : Subspan("fb", index, size)
  \/ Reserve(1)
  \/ \E h \in {"fb", "s1"} : Assign(h)
  \/ \E hit \in BOOLEAN : AssignInto("s1", "fb", hit)
  \/ \E h \in {"fb", "cp"}, index \in 0 .. 1, junk \in Byte : At(h, index, junk)

SpecAssign == Init /\ [][NextAssign]_vars

\* the positions a caller sets a cursor to
Seeks == {1, M \div 2, M - 1}

\* SpecCursor: a BufferReader and a BufferWriter over the FlexBuffer or over
\* a sub-buffer reserved from it.
NextCursor ==
  \/ \E n \in {1, 3} : Resize(n, "KeepData")
  \/ Reserve(1)
  \/ \E h \in {"fb", "s1"} : NewReader(h)
  \/ \E h \in {"fb", "s1"} : NewWriter(h)
  \/ \E p \in Seeks : ReaderSeek(p)
  \/ \E p \in Seeks : WriterSeek(p)
  \/ \E n \in (1 .. MaxLen) \cup {npos} : ReaderPeek(n)
  \/ \E n \in (1 .. MaxLen) \cup {npos} : ReaderNext(n)
  \/ \E bytes \in Data : WriterWrite(bytes)

SpecCursor == Init /\ [][NextCursor]_vars

\* what memory that was released may read as
Junk == {[i \in 1 .. n |-> b] : n \in 0 .. MaxLen, b \in Byte}

\* the appended data lies in memory next to the FlexBuffer, so the two sizes
\* together stay below 2^Bits
Fits(n) == hs["fb"].size + n < M

\* SpecAppend: strings, values and views appended to the FlexBuffer; the
\* views are the FlexBuffer itself, a subview of it and a copy of it.
NextAppend ==
  \/ \E bytes \in Data : Fits(Len(bytes)) /\ AppendBytes(bytes)
  \/ \E src \in {"fb", "s1", "cp"}, junk \in Junk : Fits(hs[src].size) /\ AppendView(src, junk)
  \/ \E index \in 0 .. 1, size \in Sizes : Subview("fb", index, size)
  \/ Copy("fb", 0, npos)

SpecAppend == Init /\ [][NextAppend]_vars

\* SpecLife: the FlexBuffer, a slice of it and a slice of the slice, read
\* and destroyed in any order.
NextLife ==
  \/ \E bytes \in Data : Live(hs["fb"]) /\ AppendBytes(bytes)
  \/ \E src \in {"fb", "s1"}, index \in 0 .. 1 : Subview(src, index, 1)
  \/ \E index \in 0 .. 1 : Live(hs["fb"]) /\ Subspan("fb", index, 1)
  \/ \E h \in {"fb", "s1", "s2"} : Destroy(h)
  \/ \E h \in {"fb", "s1", "s2"}, junk \in Byte : At(h, 0, junk)

SpecLife == Init /\ [][NextLife]_vars

\* the byte values of the texts of SpecText: zero, both sides of the sign
\* bit of char, and the largest
CharBytes == {0, 10, 33, 127, 128, 255}
Texts == {[i \in 1 .. n |-> IF i = 1 THEN a ELSE b] :
            n \in 1 .. MaxLen, a \in CharBytes, b \in CharBytes}

\* SpecText: a text appended to the FlexBuffer, which is then converted.
NextText ==
  \/ Probing /\ \E text \in Texts : AppendBytes(text)
  \/ Probing /\ \E signed \in BOOLEAN : Hex("fb", signed)
  \/ Probing /\ \E over \in 1 .. MaxLen : Str("fb", over)

SpecText == Init /\ [][NextText]_vars

\* SpecFlex: the FlexBuffer resized, reserved from, appended to and cleared,
\* and a FlexBuffer "cp" copied from it and resized.
NextFlex ==
  \/ \E n \in ResizeSizes, mode \in ResizeMode : Resize(n, mode)
  \/ \E n \in 1 .. MaxLen : Reserve(n)
  \/ \E n \in 1 .. MaxLen : AppendBytes([i \in 1 .. n |-> 1])
  \/ Clear("fb")
  \/ FlexCopyCtor
  \/ FlexAssign(0)
  \/ \E index \in 0 .. 1, size \in {1, npos} : FlexCopy(index, size)
  \/ \E n \in {0, 3} : ResizeCopy(n, "KeepData")

SpecFlex == Init /\ [][NextFlex]_vars

\* ----------------------------------------------------------------- claims

FB == hs["fb"]
\* fb.capacity()
FBCap == heap[FB.d].cap
\* the operations of FlexBuffer that set its size
Sizing == {"resize", "reserve", "append"}

\* the capacities the doubling from c0 passes through before it overflows
Chain(c0) == {c \in SizeT : \E k \in 0 .. Bits : c = c0 * 2 ^ k}
\* the powers of two that size_t holds
PowersOfTwo == Chain(1)
\* the smallest member of set cs that is >= size; size itself when there is none
SmallestFit(cs, size) ==
  LET fit == {c \in cs : c >= size}
  IN IF fit = {} THEN size ELSE CHOOSE c \in fit : \A e \in fit : c <= e

C8_ResizeKeepsPrefix ==
  [][last'.op = "resize" =>
       /\ hs'["fb"].size = last'.size
       /\ last'.mode = "KeepData" =>
            \A i \in 0 .. (Min(FB.size, last'.size) - 1) :
              Cell(heap', FB.d, i) = Cell(heap, FB.d, i)]_vars

\* C8's case: a byte was appended to a buffer of capacity 1, and a KeepData
\* resize to 3 then reallocated (capacity 4) and kept it
C8_Witness ==
  /\ last.op = "resize" /\ last.mode = "KeepData" /\ last.size = 3
  /\ steps = 2 /\ FB.ic = 1 /\ FBCap = 4 /\ heap[FB.d].gen = 1
  /\ Cell(heap, FB.d, 0) \in Byte

\* the operations that go through check_bounds
Accesses == {"at", "put", "clear", "subview", "subspan"}
Slicing == {"subview", "subspan"}
\* the handle the last operation went through
Via == hs[last.h]

\* C2: a byte written through the FlexBuffer or a sub-buffer is the byte that
\* every view and sub-buffer of the same descriptor reads at that descriptor
\* position, also when the descriptor was reallocated after the slice was
\* taken, provided the slice's range lies within the capacity.
C2_SharedDescriptor ==
  [][last'.op = "put" /\ ~last'.raised =>
       LET p == raw_data(hs[last'.h], last'.index)
       IN \A g \in {"fb", "s1", "s2"} :
            \A j \in 0 .. (hs[g].size - 1) :
              (/\ Live(hs[g])
               /\ hs[g].off + hs[g].size <= Cap(heap', hs[g])
               /\ raw_data(hs[g], j) = p
               /\ p < Cap(heap', hs[last'.h]))
              => Cell(heap', hs[g].d, raw_data(hs[g], j)) = last'.val[1]]_vars

\* C2's case: a sub-buffer taken from fb, fb's descriptor reallocated after
\* that, then a byte written through fb inside the sub-buffer's range
C2_Witness ==
  /\ last.op = "put" /\ ~last.raised /\ last.h = "fb"
  /\ Live(hs["s1"]) /\ hs["s1"].born < heap[FB.d].gen
  /\ hs["s1"].off + hs["s1"].size <= FBCap
  /\ last.index >= hs["s1"].off /\ last.index < hs["s1"].off + hs["s1"].size

\* C3 as stated: an access that returns touches only positions below the
\* descriptor's capacity (offset + index + length <= capacity), and an access
\* through a handle whose offset is above the capacity throws.
C3_AccessWithinCapacity ==
  last.op \in Accesses =>
    /\ ~last.raised => Via.off + last.index + last.len <= Cap(heap, Via)
    /\ Via.off > Cap(heap, Via) => last.raised

\* C5 as stated: a slice that subview / subspan return for index + size <=
\* size() has that size and starts at the receiver's byte index.
C5_SliceRelativeToReceiver ==
  (/\ last.op \in Slicing /\ ~last.raised
   /\ last.size # npos /\ last.index + last.size <= Via.size)
  => LET res == hs[SliceSlot(last.h)]
     IN /\ res.size = last.size
        /\ res.d = Via.d
        /\ res.off = Via.off + last.index

\* the bounds-checked operations that take an index, and those whose size
\* argument may be left out ("to the end of the buffer")
Indexed == {"at", "read", "put", "subview", "subspan", "copy", "flex_copy"}
ToEndOps == {"subview", "subspan", "copy", "flex_copy"}

\* C4 as stated: an indexed operation whose index + length is, as a number,
\* greater than size() throws; with the length left out, one whose index is
\* greater than size() throws.
C4_OutOfRangeRaises ==
  last.op \in Indexed =>
    IF last.op \in ToEndOps /\ last.size = npos
      THEN last.index > Via.size => last.raised
      ELSE last.index + last.size > Via.size => last.raised

\* the operations that make the copy "cp" of a Buffer, and of the FlexBuffer
Copies == {"copy_ctor", "assign", "copy_of", "copy"}
FlexCopies == {"flex_copy_ctor", "flex_assign"}
CP == hs["cp"]

\* the byte at index k of handle v, when it is a byte of v's allocation
InAlloc(v, k) == v.off + k < Cap(heap, v)

\* C6 as stated, at the moment of copying: the copy has the size of the
\* copied range, its bytes are the bytes of b in that range, one for one, and
\* its descriptor is not b's.
C6_CopyEqualsRange ==
  (last.op \in Copies /\ ~last.raised) =>
    /\ CP.size = last.len
    /\ CP.d # Via.d
    /\ \A k \in 0 .. (last.len - 1) :
         /\ InAlloc(Via, last.index + k)
         /\ InAlloc(CP, k)
         /\ Cell(heap, CP.d, raw_data(CP, k)) = Cell(heap, Via.d, raw_data(Via, last.index + k))

\* C7 as stated: a FlexBuffer copy constructed or assigned from fb has fb's
\* size, bytes, capacity and initial capacity, and its own descriptor.
C7_FlexCopyEqualsSource ==
  last.op \in FlexCopies =>
    /\ CP.size = FB.size
    /\ Cap(heap, CP) = FBCap
    /\ CP.ic = FB.ic
    /\ CP.d # FB.d
    /\ \A k \in 0 .. (FB.size - 1) :
         Cell(heap, CP.d, raw_data(CP, k)) = Cell(heap, FB.d, raw_data(FB, k))

\* C9 as stated: a write of n bytes at position p of a buffer of size s with
\* p + n <= s returns, stores the data at [p, p + n), changes no other byte
\* and leaves the position at p + n; one with p + n > s throws and changes
\* neither the position nor a byte.
C9_WriteContract ==
  [][(last'.op = "write" /\ steps' # steps) =>
       LET b == hs[pos.buf]
           n == last'.size
       IN IF pos.writer + n <= b.size
            THEN /\ ~last'.raised
                 /\ pos'.writer = pos.writer + n
                 /\ heap' = Store(heap, b.d, b.off + pos.writer, last'.val)
            ELSE /\ last'.raised
                 /\ pos' = pos
                 /\ heap' = heap]_vars

\* C10 as stated: next(n) and peek(n) at position p of a view of length s
\* with p + n <= s return the view of bytes [p, p + n) of it, next leaving
\* the position at p + n and peek at p; with p + n > s they throw and leave
\* the position at p.
C10_ReaderSequencing ==
  last.op \in {"next", "peek"} =>
    IF last.index + last.size <= Via.size
      THEN /\ ~last.raised
           /\ hs["s2"].d = Via.d
           /\ hs["s2"].off = Via.off + last.index
           /\ hs["s2"].size = last.size
           /\ pos.reader = IF last.op = "next" THEN last.index + last.size ELSE last.index
      ELSE /\ last.raised
           /\ pos.reader = last.index

\* C11 as stated: reserve(extra) on a FlexBuffer of size s leaves the size at
\* s + extra and the bytes [0, s) as they were, and returns the sub-buffer of
\* the bytes [s, s + extra) of the FlexBuffer, which are bytes of its memory.
C11_ReserveAddsRegion ==
  [][(last'.op = "reserve" /\ steps' # steps) =>
       LET s == hs["fb"].size
           extra == last'.size
       IN /\ hs'["fb"].size = s + extra
          /\ hs'["s1"].d = hs'["fb"].d
          /\ hs'["s1"].off = s
          /\ hs'["s1"].size = extra
          /\ s + extra <= Cap(heap', hs'["fb"])
          /\ \A i \in 0 .. (s - 1) :
               Cell(heap', hs'["fb"].d, i) = Cell(heap, hs["fb"].d, i)]_vars

\* C12 as stated: an append to a FlexBuffer of size s of an item of n bytes
\* leaves the size at s + n, the bytes [0, s) as they were, and the bytes
\* [s, s + n) equal to the item's (for a view: the bytes it held before the
\* call).
C12_AppendConcatenates ==
  [][(last'.op \in {"append", "append_view"} /\ steps' # steps) =>
       LET s == hs["fb"].size
           n == last'.size
       IN /\ hs'["fb"].size = s + n
          /\ \A i \in 0 .. (s - 1) :
               Cell(heap', hs'["fb"].d, i) = Cell(heap, hs["fb"].d, i)
          /\ \A k \in 1 .. n :
               Cell(heap', hs'["fb"].d, s + k - 1) = last'.val[k]]_vars

\* the handles that hold descriptor d
Holders(d) == {h \in HandleNames : hs[h].d = d}

\* C13: when a handle is destroyed, every handle left keeps its descriptor
\* with the same bytes; a descriptor's memory is released only once no
\* handle holds it, and never twice.
C13_SlicesOutliveSource ==
  /\ [](\A d \in 1 .. Len(heap) :
         /\ heap[d].freed <= 1
         /\ heap[d].freed = 1 => Holders(d) = {})
  /\ [][(last'.op = "destroy" /\ steps' # steps) =>
          /\ \A h \in HandleNames \ {last'.h} :
               Live(hs[h]) => hs'[h] = hs[h] /\ heap'[hs[h].d] = heap[hs[h].d]
          /\ Holders(hs[last'.h].d) = {last'.h} => heap'[hs[last'.h].d].freed = 1]_vars

\* the FlexBuffer was destroyed and a slice of it still holds a written byte
C13_Witness ==
  /\ last.op = "destroy" /\ last.h = "fb"
  /\ Live(hs["s1"])
  /\ heap[hs["s1"].d].freed = 0
  /\ Cell(heap, hs["s1"].d, raw_data(hs["s1"], 0)) \in Byte

\* C14 as stated: data() of a view whose offset is greater than the capacity
\* its descriptor has now throws.
C14_DataChecksRange ==
  (last.op = "data" /\ Via.off > Cap(heap, Via)) => last.raised

\* the bytes of the handle the last operation went through
ViaBytes == Cells(heap, Via, 0, Via.size)

\* C15 as stated: hex() of n bytes is "0x" and, for every byte in order, its
\* two lowercase hexadecimal digits: 2 + 2n characters.
C15_HexTwoDigitsPerByte ==
  (last.op = "hex" /\ ~last.raised) =>
    /\ Len(last.val) = 2 + 2 * Via.size
    /\ SubSeq(last.val, 1, 2) = << 48, 120 >>
    /\ \A i \in 1 .. Via.size :
         /\ last.val[2 * i + 1] = HexChar(ViaBytes[i] \div 16)
         /\ last.val[2 * i + 2] = HexChar(ViaBytes[i] % 16)

\* C16 as stated: str() of n bytes is the string of exactly these n bytes,
\* zero bytes too, and reads no byte past the n.
C16_StrIsAllBytes ==
  (last.op = "str" /\ ~last.raised) =>
    /\ last.val = ViaBytes
    /\ last.len <= Via.size

\* C17 as stated: remaining() is max(0, length - p) at every position p, and
\* a peek, next or write of at least one byte at a position greater than the
\* length throws.
C17_CursorPastEndFails ==
  /\ Live(hs["rv"]) =>
       Cursor_remaining(hs["rv"], pos.reader) = Max(0, hs["rv"].size - pos.reader)
  /\ pos.buf # "none" =>
       Cursor_remaining(hs[pos.buf], pos.writer) = Max(0, hs[pos.buf].size - pos.writer)
  /\ (last.op \in {"peek", "next", "write"} /\ last.size >= 1 /\ last.index > Via.size) =>
       last.raised

\* the FlexBuffers: fb, and cp once it is made
FlexBuffers == {h \in {"fb", "cp"} : Live(hs[h])}

\* C18: the size of a FlexBuffer is at most its capacity.
C18_SizeWithinCapacity ==
  \A h \in FlexBuffers : hs[h].size <= Cap(heap, hs[h])

\* the doubling overflowed and the capacity is the size
C18_Witness ==
  /\ last.op = "resize"
  /\ FB.size > M \div 2
  /\ FBCap = FB.size
  /\ C18_SizeWithinCapacity

\* C19: the capacity of a FlexBuffer is never below its initial capacity,
\* and resize, reserve and append leave the initial capacity as it is.
C19_CapacityFloor ==
  /\ [](\A h \in FlexBuffers : Cap(heap, hs[h]) >= hs[h].ic)
  /\ [][last'.op \in Sizing => hs'[last'.h].ic = hs[last'.h].ic]_vars

\* a FlexBuffer with an initial capacity above 1 was grown and resized to 0
C19_Witness ==
  /\ last.op = "resize" /\ last.h = "fb"
  /\ FB.size = 0
  /\ FB.ic > 1
  /\ heap[FB.d].gen >= 2
  /\ FBCap = FB.ic

\* C20: resize leaves the size as asked, and when the capacity it computes is
\* the one the descriptor has, it reallocates nothing and changes no byte.
C20_ResizeInPlace ==
  [][(last'.op = "resize" /\ steps' # steps) =>
       LET f == hs[last'.h]
       IN /\ hs'[last'.h].size = last'.size
          /\ Cap(heap', hs'[last'.h]) = Cap(heap, f) => heap'[f.d] = heap[f.d]]_vars

\* shrunk, cleared and regrown in place: zeros below, the old bytes above
C20_Witness ==
  /\ last.op = "resize" /\ last.h = "fb"
  /\ heap[FB.d].gen = 0
  /\ FB.size = 3
  /\ Cell(heap, FB.d, 0) = 0
  /\ Cell(heap, FB.d, 1) = 1

\* C21 as stated: after t = rhs, for any Buffer t, t has the size of rhs,
\* every byte of t can be read and equals the byte of rhs at the same index,
\* and the memcpy of the assignment stays inside the descriptor it allocated.
C21_AssignIsDeepCopy ==
  [][(last'.op \in {"assign", "assign_into"} /\ steps' # steps) =>
       LET rhs == hs[last'.h]
           t == hs'["cp"]
       IN /\ t.size = rhs.size
          /\ \A i \in 0 .. (rhs.size - 1) :
               /\ check_bounds(heap', t, i, 1)
               /\ Cell(heap', t.d, raw_data(t, i)) = Cell(heap, rhs.d, raw_data(rhs, i))
          /\ last'.index + rhs.size <= Cap(heap', t)]_vars

\* C22 as stated: an append to the FlexBuffer of a view that shares its
\* descriptor (the FlexBuffer itself, or a subview of it) appends the bytes
\* the view held before the call, and the bytes are not read through a
\* pointer into memory the append released.
C22_SelfAppendSafe ==
  [][(last'.op = "append_view" /\ steps' # steps /\ hs[last'.h].d = hs["fb"].d) =>
       LET s == hs["fb"].size
           v == hs[last'.h]
       IN /\ hs'["fb"].size = s + v.size
          /\ \A k \in 1 .. v.size :
               Cell(heap', hs'["fb"].d, s + k - 1) = Cell(heap, v.d, raw_data(v, k - 1))
          /\ v.size > 0 => ~FlexBuffer_append_dangling(heap, hs["fb"], v)]_vars

====
